---- MODULE Spec2Model ----
(***************************************************************************)
(* A model of the MockKnex test double (src/manualtest.ts): the            *)
(* expectation store, the MockQuery recorder, the MockResolve invocation   *)
(* proxy, the chain matcher findResult and the two access paths valueOf    *)
(* and then.                                                               *)
(***************************************************************************)
EXTENDS Integers, Sequences, FiniteSets

(***************************************************************************)
(* JavaScript values.  Every value is a record of one shape, so that any   *)
(* two values can be compared: t is the kind of the value, s its text      *)
(* (the characters of a string, the digits of a number, the content of a   *)
(* plain object) and e its elements (of an array) or its fulfilment value  *)
(* (of a promise).                                                         *)
(***************************************************************************)
Str(s) == [t |-> "string", s |-> s, e |-> <<>>]
Num(s) == [t |-> "number", s |-> s, e |-> <<>>]
Obj(s) == [t |-> "object", s |-> s, e |-> <<>>]
Arr(e) == [t |-> "array", s |-> "", e |-> e]
Fulfilled(v) == [t |-> "promise", s |-> "", e |-> <<v>>]
Undefined == [t |-> "undefined", s |-> "", e |-> <<>>]

\* Promises as results: one that is rejected with a reason and one that
\* never settles.
Rejected(v) == [t |-> "rejected", s |-> "", e |-> <<v>>]
Pending == [t |-> "pending", s |-> "", e |-> <<>>]
Null == [t |-> "null", s |-> "", e |-> <<>>]

\* The operation names (src/manualtest.ts:319-468), those the model uses.
TABLE == "table"
SELECT == "select"
WHERE == "where"

\* ---- bounds of the model ----
\* the number of expectations a scenario records
MaxScenarioChains == 2
\* the number of chains of the store plus the number of Data records the
\* store and the proxy hold together
MaxHeld == 5
\* with doubles of several configurations: the number of chains and Data
\* records each holds, and the number of lines its trace holds
MaxHeldIn == 3
MaxLog == 3

\* ---- the inputs the model draws from ----
\* the fluent verbs called on a proxy, and the one called on a recorder
Verbs == {SELECT, WHERE}
QueryVerbs == {SELECT}
\* the argument lists (...input) of a fluent call on a proxy, and those of a
\* fluent call on a recorder: the proxy's sets add a verb and an argument
\* list that no chain of the store holds
Inputs == {<<>>, <<Str("a")>>, <<Str("b")>>}
QueryInputs == {<<>>, <<Str("a")>>}
\* the tableName argument of the factories: absent, or a string
TableNames == {Undefined, Str("t")}
\* the data argument of RESOLVE: a plain object, and a promise fulfilled
\* with another plain object
Results == {Obj("R1"), Fulfilled(Obj("R2"))}
\* the inputs of the runs about the raw factories: table names, raw inputs
\* and the argument lists of the fluent calls
RawTableNames == {Str("t"), Str("raw:1")}
RawInputs == {Str("1"), Num("1"), Str("2")}
RawCallInputs == {<<>>}
\* the arguments of the factories and of an explicit table(...) call, for
\* the specification of the table seed
SeedTableNames == {Undefined, Str(""), Str("t")}
SeedCallInputs == {<<Str("t")>>}
\* the arguments of select(...) in a test of the order of the arguments:
\* two arguments in both orders and one list argument in both orders
OrderInputs ==
    {<<Str("a"), Str("b")>>, <<Str("b"), Str("a")>>,
     <<Arr(<<Str("a"), Str("b")>>)>>, <<Arr(<<Str("b"), Str("a")>>)>>}
\* the arguments of select(...) on the side of the expectations, and the
\* result of RESOLVE, in that test
OrderExpected == {<<Str("a"), Str("b")>>, <<Arr(<<Str("a"), Str("b")>>)>>}
OrderResults == {Obj("R1")}
\* the factories of that test are called with no table name
OrderTableNames == {Undefined}
\* the MockKnex instances of a test with several doubles
Doubles == {"A", "B"}
\* the arguments of the fluent calls in a test with several doubles
TwoCallInputs == {<<>>}
\* the table names of the expectations in a test with several doubles
TwoTableNames == {Str("t")}
\* the variables of a test that hold the proxies of one double
Handles == {"p", "q"}
\* the argument of MockDB().raw(...) and the result of RESOLVE in a test
\* with several proxies
HandleRawInputs == {Str("1")}
HandleResults == {Obj("R1")}
\* the results of RESOLVE in a test of await: a plain value, a fulfilled
\* promise, a rejected promise and a promise that never settles
\* the doubles of a test about the trace, by their configuration:
\* new MockKnex({printData: true}), new MockKnex({printData: false}) and
\* new MockKnex()
Configured == {"on", "off", "none"}

\* the results that are empty or absent, and one that is neither
FalsyResults == {Arr(<<>>), Null, Num("0"), Undefined, Obj("R1")}

AwaitResults == {Obj("R1"), Fulfilled(Obj("R2")), Rejected(Obj("E")), Pending}
\* the scenario of the manual test: the table names, the arguments of
\* select(...), the arguments of where(...) and the result
ScenarioTables == {Str("myTable"), Str("other")}
ScenarioSelects ==
    {<<>>, <<Arr(<<>>)>>, <<Arr(<<Str("objectName"), Str("id")>>)>>, <<Str("id")>>}
ScenarioWhere == <<Str("field"), Str("data")>>
ScenarioResult == Obj("test:passed")

VARIABLES
    dataArrayArray, \* MockKnex.dataArrayArray: the store, a list of chains
    querySeed,      \* how the MockQuery of each chain was created (history)
    currentStack,   \* MockResolve.currentStack of the proxy in use
    resolveSeed,    \* how the proxy in use was created (history)
    observed,       \* the values the proxy's accesses returned since the
                    \* store and the stack last changed (history)
    thrown,         \* whether the last call ended in a TypeError
    resolveOrder,   \* the chains in the order of their first RESOLVE (history)
    stores,         \* with several doubles: the arrays the doubles allocated
    proxies,        \* with several doubles: the proxy of each double in use
    seen,           \* with several doubles: the values the accesses of each
                    \* double's proxy returned since it last changed (history)
    mockResolves,   \* with several proxies of the double: the MockResolve
                    \* objects, by the name of the variable that holds each
    mockKnexes      \* with doubles of several configurations: each double
                    \* with its store, its proxy and the lines it printed

vars == <<dataArrayArray, querySeed, currentStack, resolveSeed, observed, thrown,
          resolveOrder,
         stores, proxies, seen, mockResolves, mockKnexes>>

\* ---- helpers of the code ----

\* CraftData(action, parameters, isMore): a Data without a result property;
\* reading the absent property yields undefined.
CraftData(action, parameters, isMore) ==
    [action |-> action, parameters |-> parameters, isMore |-> isMore,
     result |-> Undefined]

\* if (tableName): a string is truthy unless it is empty; undefined is falsy.
Truthy(v) ==
    IF v.t = "undefined" THEN FALSE
    ELSE IF v.t = "string" THEN v.s # ""
    ELSE TRUE

\* Array.prototype.join of the texts of the elements, separator ","
RECURSIVE Join(_, _)
Join(texts, k) ==
    IF k > Len(texts) THEN ""
    ELSE IF k = Len(texts) THEN texts[k]
    ELSE texts[k] \o "," \o Join(texts, k + 1)

\* `${input}`: the string conversion of a template literal
RECURSIVE TemplateString(_)
TemplateString(v) ==
    IF v.t = "string" \/ v.t = "number" THEN v.s
    ELSE IF v.t = "undefined" THEN "undefined"
    ELSE IF v.t = "array" THEN Join([k \in 1..Len(v.e) |-> TemplateString(v.e[k])], 1)
    ELSE IF v.t = "promise" THEN "[object Promise]"
    ELSE "[object Object]"

\* RawInputString with the interpolation of input left out
RawInputStringFixed(input) == Str("raw:")

\* const inputString = `raw:${input}`
RawInputString(input) == Str("raw:" \o TemplateString(input))

\* parameters.length: the length of a string or of an array
Length(v) ==
    IF v.t = "string" THEN Len(v.s)
    ELSE IF v.t = "array" THEN Len(v.e)
    ELSE 0

\* an equality of lists that disregards the order of the elements
RECURSIVE IsEqualUnordered(_, _)
IsEqualUnordered(a, b) ==
    IF a.t # b.t THEN FALSE
    ELSE IF a.t = "array"
        THEN /\ Len(a.e) = Len(b.e)
             /\ \A k \in 1..Len(a.e) :
                    \E m \in 1..Len(b.e) : IsEqualUnordered(a.e[k], b.e[m])
    ELSE IF a.t = "promise" THEN FALSE
    ELSE a.s = b.s

\* _.isEqual: deep, order-sensitive equality
RECURSIVE IsEqual(_, _)
IsEqual(a, b) ==
    IF a.t # b.t THEN FALSE
    ELSE IF a.t = "array"
        THEN /\ Len(a.e) = Len(b.e)
             /\ \A k \in 1..Len(a.e) : IsEqual(a.e[k], b.e[k])
    ELSE IF a.t = "promise" THEN FALSE
    ELSE a.s = b.s

\* new MockQuery(newData, tableName): the chain after the constructor ran
MockQueryNew(tableName) ==
    IF Truthy(tableName) THEN <<CraftData(TABLE, tableName, TRUE)>> ELSE <<>>

\* a MockResolve constructor whose seed is crafted as a last operation
MockResolveNewSealed(tableName) ==
    IF Truthy(tableName) THEN <<CraftData(TABLE, tableName, FALSE)>> ELSE <<>>

\* new MockResolve(config, resolveQue, tableName): currentStack after the
\* constructor ran
MockResolveNew(tableName) ==
    IF Truthy(tableName) THEN <<CraftData(TABLE, tableName, TRUE)>> ELSE <<>>

\* ---- the matcher (MockResolve.findResult) ----

\* ActionDiffers with the result of the comparison dropped
ActionNeverDiffers(expected, actual) == FALSE

\* resolution[innerIndex].action != this.currentStack[innerIndex].action
ActionDiffers(expected, actual) == expected.action # actual.action

\* ExpectNotSet that also takes arguments that are all empty lists as not set
ExpectNotSetDeep(expected) ==
    \/ Length(expected.parameters) = 0
    \/ /\ expected.parameters.t = "array"
       /\ \A k \in 1..Len(expected.parameters.e) :
            expected.parameters.e[k] = Arr(<<>>)

\* ExpectNotSet without the wildcard: set parameters are always compared
ExpectAlwaysSet(expected) == FALSE

\* !resolution[innerIndex].parameters.length: "skip if EXPECT not set"
ExpectNotSet(expected) == Length(expected.parameters) = 0

\* ParametersDiffer with the wildcard on the side of the invocation too
ParametersDifferUnlessUnset(expected, actual) ==
    /\ Length(actual.parameters) # 0
    /\ ~IsEqual(expected.parameters, actual.parameters)

\* ParametersDiffer with the result of the comparison dropped
ParametersNeverDiffer(expected, actual) == FALSE

\* !_.isEqual(resolution[innerIndex].parameters,
\*            this.currentStack[innerIndex].parameters)
ParametersDiffer(expected, actual) ==
    ~IsEqual(expected.parameters, actual.parameters)

\* The inner loop of findResult from position innerIndex on: the value of
\* match when the loop ends.
RECURSIVE LinkLoop(_, _, _)
LinkLoop(resolution, stack, innerIndex) ==
    IF innerIndex > Len(resolution) THEN TRUE
    ELSE IF ActionDiffers(resolution[innerIndex], stack[innerIndex]) THEN FALSE
    ELSE IF ExpectNotSet(resolution[innerIndex])
        THEN LinkLoop(resolution, stack, innerIndex + 1)
    ELSE IF ParametersDiffer(resolution[innerIndex], stack[innerIndex]) THEN FALSE
    ELSE LinkLoop(resolution, stack, innerIndex + 1)

\* EndsChain without the test of isMore
EndsChainUnsealed(resolution) == Len(resolution) > 0

\* "got to end and still matches": resolution.length > 0 &&
\* resolution[resolution.length - 1].isMore === false
EndsChain(resolution) ==
    Len(resolution) > 0 /\ resolution[Len(resolution)].isMore = FALSE

\* FindLoop that returns null at the first chain that matches and is not
\* sealed
RECURSIVE FindLoopStops(_, _, _)
FindLoopStops(resolveQue, stack, index) ==
    IF index > Len(resolveQue) THEN <<>>
    ELSE LET resolution == resolveQue[index] IN
        IF Len(resolution) # Len(stack) THEN FindLoopStops(resolveQue, stack, index + 1)
        ELSE IF ~LinkLoop(resolution, stack, 1)
            THEN FindLoopStops(resolveQue, stack, index + 1)
        ELSE IF EndsChain(resolution) THEN <<resolution[Len(resolution)]>>
        ELSE <<>>

\* The outer loop of findResult from chain index on: <<>> for null, <<d>>
\* for the Data d it returns.
RECURSIVE FindLoop(_, _, _)
FindLoop(resolveQue, stack, index) ==
    IF index > Len(resolveQue) THEN <<>>
    ELSE LET resolution == resolveQue[index] IN
        IF Len(resolution) # Len(stack) THEN FindLoop(resolveQue, stack, index + 1)
        ELSE IF ~LinkLoop(resolution, stack, 1)
            THEN FindLoop(resolveQue, stack, index + 1)
        ELSE IF EndsChain(resolution) THEN <<resolution[Len(resolution)]>>
        ELSE FindLoop(resolveQue, stack, index + 1)

\* findResult scanning the chains from the last one to the first
findResultLastFirst(resolveQue, stack) ==
    FindLoop([k \in 1..Len(resolveQue) |-> resolveQue[Len(resolveQue) + 1 - k]],
             stack, 1)

findResult(resolveQue, stack) == FindLoop(resolveQue, stack, 1)

\* a valueOf() that tests the result, res.result || [], not the match
valueOfResultOrDefault(resolveQue, stack) ==
    LET res == findResult(resolveQue, stack) IN
    IF /\ res # <<>>
       /\ res[1].result.t \notin {"undefined", "null"}
       /\ res[1].result # Num("0")
       /\ res[1].result # Str("")
    THEN res[1].result ELSE Arr(<<>>)

\* the value valueOf() returns
valueOfResult(resolveQue, stack) ==
    LET res == findResult(resolveQue, stack) IN
    IF res # <<>> THEN res[1].result ELSE Arr(<<>>)

\* Promise.resolve(finalRes): a promise is adopted, so the callback of then
\* receives its fulfilment value; any other value is passed as it is.
PromiseResolve(finalRes) ==
    IF finalRes.t = "promise" THEN finalRes.e[1] ELSE finalRes

\* the value the resolve callback of then() receives (the value of await)
thenResult(resolveQue, stack) ==
    LET res == findResult(resolveQue, stack)
        finalRes == IF res # <<>> THEN res[1].result ELSE Arr(<<>>)
    IN PromiseResolve(finalRes)

\* ---- state ----

\* the number of Data records of the chains from the k-th on
RECURSIVE OpsIn(_, _)
OpsIn(chains, k) ==
    IF k > Len(chains) THEN 0 ELSE Len(chains[k]) + OpsIn(chains, k + 1)

\* the chains and the Data records held
Held == Len(dataArrayArray) + OpsIn(dataArrayArray, 1) + Len(currentStack)

NoAccess == [valueOf |-> {}, await |-> {}]

\* no promise was returned yet, and no access made
NoPromise == [state |-> "none", finalRes |-> Undefined, value |-> Undefined]
NotReturned == <<>>

\* the constructor's config parameter: absent, or an object with printData
NoConfig == [given |-> FALSE, printData |-> FALSE]
Config(printData) == [given |-> TRUE, printData |-> printData]
ConfigOf(c) ==
    IF c = "on" THEN Config(TRUE) ELSE IF c = "off" THEN Config(FALSE) ELSE NoConfig

\* new MockKnex(config)
MockKnexNew(config) ==
    [config |-> config,
     dataArrayArray |-> <<>>,
     made |-> FALSE,
     currentStack |-> <<>>,
     thrown |-> FALSE,
     returned |-> NotReturned,
     awaited |-> NotReturned,
     log |-> <<>>]

Init ==
    /\ dataArrayArray = <<>>
    /\ querySeed = <<>>
    /\ currentStack = <<>>
    /\ resolveSeed = [kind |-> "none", input |-> Undefined]
    /\ observed = NoAccess
    /\ thrown = FALSE
    /\ resolveOrder = <<>>
    /\ stores = [d \in Doubles |-> <<>>]
    /\ proxies = [d \in Doubles |-> [made |-> FALSE, currentStack |-> <<>>]]
    /\ seen = [d \in Doubles |-> NoAccess]
    /\ mockResolves = [h \in Handles |->
            [made |-> FALSE,
             resolveQue |-> [kind |-> "ref", chains |-> <<>>],
             currentStack |-> <<>>,
             calls |-> <<>>,
             born |-> 0,
             returned |-> NotReturned,
             promise |-> NoPromise]]
    /\ mockKnexes = [c \in Configured |-> MockKnexNew(ConfigOf(c))]

\* ---- MockKnex.EXPECT ----

\* mQFunc that creates the builder and leaves the store as it is
ExpectTableUnregistered(tableName) ==
    /\ Held + 1 + Len(MockQueryNew(tableName)) <= MaxHeld
    /\ querySeed' = Append(querySeed, [kind |-> "table", input |-> tableName])
    /\ observed' = NoAccess
    /\ thrown' = FALSE
    /\ UNCHANGED <<dataArrayArray, currentStack, resolveSeed, resolveOrder,
                 stores, proxies, seen, mockResolves, mockKnexes>>

\* mQFunc that puts the new chain at the head of the store
ExpectTablePrepends(tableName) ==
    /\ Held + 1 + Len(MockQueryNew(tableName)) <= MaxHeld
    /\ dataArrayArray' = <<MockQueryNew(tableName)>> \o dataArrayArray
    /\ querySeed' = <<[kind |-> "table", input |-> tableName]>> \o querySeed
    /\ resolveOrder' = [n \in 1..Len(resolveOrder) |-> resolveOrder[n] + 1]
    /\ observed' = NoAccess
    /\ thrown' = FALSE
    /\ UNCHANGED <<currentStack, resolveSeed, stores, proxies, seen, mockResolves, mockKnexes>>

\* EXPECT()(tableName): mQFunc
ExpectTable(tableName) ==
    /\ Held + 1 + Len(MockQueryNew(tableName)) <= MaxHeld
    /\ dataArrayArray' = Append(dataArrayArray, MockQueryNew(tableName))
    /\ querySeed' = Append(querySeed, [kind |-> "table", input |-> tableName])
    /\ observed' = NoAccess
    /\ thrown' = FALSE
    /\ UNCHANGED <<currentStack, resolveSeed, resolveOrder,
                 stores, proxies, seen, mockResolves, mockKnexes>>

\* EXPECT().raw(input): mQFunc.raw
ExpectRaw(input) ==
    /\ Held + 2 <= MaxHeld
    /\ dataArrayArray' = Append(dataArrayArray, MockQueryNew(RawInputString(input)))
    /\ querySeed' = Append(querySeed, [kind |-> "raw", input |-> input])
    /\ observed' = NoAccess
    /\ thrown' = FALSE
    /\ UNCHANGED <<currentStack, resolveSeed, resolveOrder,
                 stores, proxies, seen, mockResolves, mockKnexes>>

\* ---- MockQuery ----

\* a fluent call of the MockQuery of chain i: select(...input), where(...input)
QueryCall(i, verb, input) ==
    /\ i \in 1..Len(dataArrayArray)
    /\ Held < MaxHeld
    /\ dataArrayArray' = [dataArrayArray EXCEPT
            ![i] = Append(@, CraftData(verb, Arr(input), TRUE))]
    /\ observed' = NoAccess
    /\ thrown' = FALSE
    /\ UNCHANGED <<querySeed, currentStack, resolveSeed, resolveOrder,
                 stores, proxies, seen, mockResolves, mockKnexes>>

\* RESOLVE that, on an empty dataArray, pushes a Data that carries the result
RESOLVESealsEmpty(i, data) ==
    /\ i \in 1..Len(dataArrayArray)
    /\ dataArrayArray' = [dataArrayArray EXCEPT ![i] =
            IF Len(@) = 0
            THEN <<[CraftData("", Arr(<<>>), FALSE) EXCEPT !.result = data]>>
            ELSE [@ EXCEPT ![Len(@)] = [@ EXCEPT !.isMore = FALSE, !.result = data]]]
    /\ observed' = NoAccess
    /\ thrown' = FALSE
    /\ resolveOrder' = IF \E n \in 1..Len(resolveOrder) : resolveOrder[n] = i
                       THEN resolveOrder ELSE Append(resolveOrder, i)
    /\ UNCHANGED <<querySeed, currentStack, resolveSeed, stores, proxies, seen, mockResolves, mockKnexes>>

\* RESOLVE(data) of the MockQuery of chain i.  On an empty dataArray the
\* element at index -1 is undefined and the assignment throws a TypeError.
RESOLVE(i, data) ==
    /\ i \in 1..Len(dataArrayArray)
    /\ IF Len(dataArrayArray[i]) = 0
       THEN /\ thrown' = TRUE
            /\ UNCHANGED <<dataArrayArray, observed, resolveOrder>>
       ELSE /\ dataArrayArray' = [dataArrayArray EXCEPT
                    ![i][Len(dataArrayArray[i])] =
                        [@ EXCEPT !.isMore = FALSE, !.result = data]]
            /\ observed' = NoAccess
            /\ thrown' = FALSE
            /\ resolveOrder' = IF \E n \in 1..Len(resolveOrder) : resolveOrder[n] = i
                               THEN resolveOrder ELSE Append(resolveOrder, i)
    /\ UNCHANGED <<querySeed, currentStack, resolveSeed,
                 stores, proxies, seen, mockResolves, mockKnexes>>

\* ---- MockKnex.MockDB ----

\* MockDB()(tableName): mRFunc; the proxy in use is replaced by a fresh one
MockDBTable(tableName) ==
    /\ Held - Len(currentStack) + Len(MockResolveNew(tableName)) <= MaxHeld
    /\ currentStack' = MockResolveNew(tableName)
    /\ resolveSeed' = [kind |-> "table", input |-> tableName]
    /\ observed' = NoAccess
    /\ thrown' = FALSE
    /\ UNCHANGED <<dataArrayArray, querySeed, resolveOrder,
                 stores, proxies, seen, mockResolves, mockKnexes>>

\* MockDB().raw(input): mRFunc.raw
MockDBRaw(input) ==
    /\ Held - Len(currentStack) + 1 <= MaxHeld
    /\ currentStack' = MockResolveNew(RawInputString(input))
    /\ resolveSeed' = [kind |-> "raw", input |-> input]
    /\ observed' = NoAccess
    /\ thrown' = FALSE
    /\ UNCHANGED <<dataArrayArray, querySeed, resolveOrder,
                 stores, proxies, seen, mockResolves, mockKnexes>>

\* ---- MockResolve ----

\* a fluent call that starts the stack anew with its own operation
ResolveCallRestarts(verb, input) ==
    /\ resolveSeed.kind # "none"
    /\ Held < MaxHeld
    /\ currentStack' = <<CraftData(verb, Arr(input), TRUE)>>
    /\ observed' = NoAccess
    /\ thrown' = FALSE
    /\ UNCHANGED <<dataArrayArray, querySeed, resolveSeed, resolveOrder,
                 stores, proxies, seen, mockResolves, mockKnexes>>

\* a fluent call on the proxy: select(...input), where(...input)
ResolveCall(verb, input) ==
    /\ resolveSeed.kind # "none"
    /\ Held < MaxHeld
    /\ currentStack' = Append(currentStack, CraftData(verb, Arr(input), TRUE))
    /\ observed' = NoAccess
    /\ thrown' = FALSE
    /\ UNCHANGED <<dataArrayArray, querySeed, resolveSeed, resolveOrder,
                 stores, proxies, seen, mockResolves, mockKnexes>>

\* valueOf() that uses up the expectations it matched: the sealed chains
\* that match the invocation are no longer sealed afterwards
ValueOfConsumes ==
    /\ resolveSeed.kind # "none"
    /\ observed' = [observed EXCEPT
            !.valueOf = @ \cup {valueOfResult(dataArrayArray, currentStack)}]
    /\ dataArrayArray' = [i \in 1..Len(dataArrayArray) |->
            IF /\ Len(dataArrayArray[i]) = Len(currentStack)
               /\ LinkLoop(dataArrayArray[i], currentStack, 1)
               /\ EndsChain(dataArrayArray[i])
            THEN [dataArrayArray[i] EXCEPT ![Len(dataArrayArray[i])].isMore = TRUE]
            ELSE dataArrayArray[i]]
    /\ thrown' = FALSE
    /\ UNCHANGED <<querySeed, currentStack, resolveSeed, resolveOrder,
                   stores, proxies, seen, mockResolves, mockKnexes>>

\* valueOf()
ValueOf ==
    /\ resolveSeed.kind # "none"
    /\ observed' = [observed EXCEPT
            !.valueOf = @ \cup {valueOfResult(dataArrayArray, currentStack)}]
    /\ thrown' = FALSE
    /\ UNCHANGED <<dataArrayArray, querySeed, currentStack, resolveSeed, resolveOrder,
                 stores, proxies, seen, mockResolves, mockKnexes>>

\* then() that discards the invocation chain once it has resolved it
ThenDiscards ==
    /\ resolveSeed.kind # "none"
    /\ observed' = [observed EXCEPT
            !.await = @ \cup {thenResult(dataArrayArray, currentStack)}]
    /\ currentStack' = <<>>
    /\ thrown' = FALSE
    /\ UNCHANGED <<dataArrayArray, querySeed, resolveSeed, resolveOrder,
                 stores, proxies, seen, mockResolves, mockKnexes>>

\* then(resolve, reject), as await calls it
Then ==
    /\ resolveSeed.kind # "none"
    /\ observed' = [observed EXCEPT
            !.await = @ \cup {thenResult(dataArrayArray, currentStack)}]
    /\ thrown' = FALSE
    /\ UNCHANGED <<dataArrayArray, querySeed, currentStack, resolveSeed, resolveOrder,
                 stores, proxies, seen, mockResolves, mockKnexes>>

\* ---- the scenario of the manual test ----

\* the dataArray after RESOLVE(data) on a chain with operations
Sealing(dataArray, data) ==
    [dataArray EXCEPT ![Len(dataArray)] = [@ EXCEPT !.isMore = FALSE, !.result = data]]

\* the chain of EXPECT()(tableName).select(...input).where("field", "data")
\* before its RESOLVE
ScenarioRecorded(tableName, input) ==
    Append(Append(MockQueryNew(tableName), CraftData(SELECT, Arr(input), TRUE)),
           CraftData(WHERE, Arr(ScenarioWhere), TRUE))

\* the stack of MockDB()(tableName).select(...input).where("field", "data")
ScenarioInvoked(tableName, input) ==
    Append(Append(MockResolveNew(tableName), CraftData(SELECT, Arr(input), TRUE)),
           CraftData(WHERE, Arr(ScenarioWhere), TRUE))

\* DB.EXPECT()(tableName).select(...input).where("field", "data")
\*     .RESOLVE({ test: "passed" })
ScenarioExpect(tableName, input) ==
    /\ Len(dataArrayArray) < MaxScenarioChains
    /\ dataArrayArray' = Append(dataArrayArray,
            Sealing(ScenarioRecorded(tableName, input), ScenarioResult))
    /\ querySeed' = Append(querySeed, [kind |-> "table", input |-> tableName])
    /\ resolveOrder' = Append(resolveOrder, Len(dataArrayArray) + 1)
    /\ observed' = NoAccess
    /\ thrown' = FALSE
    /\ UNCHANGED <<currentStack, resolveSeed,
                 stores, proxies, seen, mockResolves, mockKnexes>>

\* db(tableName).select(...input).where("field", "data")
ScenarioInvoke(tableName, input) ==
    /\ currentStack' = ScenarioInvoked(tableName, input)
    /\ resolveSeed' = [kind |-> "table", input |-> tableName]
    /\ observed' = NoAccess
    /\ thrown' = FALSE
    /\ UNCHANGED <<dataArrayArray, querySeed, resolveOrder,
                 stores, proxies, seen, mockResolves, mockKnexes>>

\* ---- several doubles ----

\* a constructor that takes one array for every double
DataArrayArrayShared(d) == "A"

\* this.dataArrayArray = new Array<Data[]>(): the array the constructor of
\* double d allocated, named by the double
DataArrayArrayOf(d) == d

\* a builder that holds the chain created last in its double
DataArrayLatest(d, i) == Len(stores[DataArrayArrayOf(d)])

\* this.dataArray = passedDataArray: the position, in the array of double d,
\* of the chain that the i-th builder of d holds; the array only grows
DataArrayOf(d, i) == i

\* this.dataArrayArray of double d
StoreOf(d) == stores[DataArrayArrayOf(d)]

\* the chains and the Data records the doubles and their proxies hold
HeldBy(d) == Len(stores[d]) + OpsIn(stores[d], 1) + Len(proxies[d].currentStack)
HeldTwo == HeldBy("A") + HeldBy("B")

\* d.EXPECT()(tableName)
EXPECT(d, tableName) ==
    /\ HeldTwo + 1 + Len(MockQueryNew(tableName)) <= MaxHeld
    /\ stores' = [stores EXCEPT
            ![DataArrayArrayOf(d)] = Append(@, MockQueryNew(tableName))]
    /\ seen' = [seen EXCEPT ![d] = NoAccess]
    /\ thrown' = FALSE
    /\ UNCHANGED <<proxies, dataArrayArray, querySeed, currentStack, resolveSeed,
                   observed, resolveOrder, mockResolves, mockKnexes>>

\* a fluent call of the i-th builder of double d
MockQueryCall(d, i, verb, input) ==
    /\ i \in 1..Len(StoreOf(d))
    /\ HeldTwo < MaxHeld
    /\ stores' = [stores EXCEPT
            ![DataArrayArrayOf(d)][DataArrayOf(d, i)] =
                Append(@, CraftData(verb, Arr(input), TRUE))]
    /\ seen' = [seen EXCEPT ![d] = NoAccess]
    /\ thrown' = FALSE
    /\ UNCHANGED <<proxies, dataArrayArray, querySeed, currentStack, resolveSeed,
                   observed, resolveOrder, mockResolves, mockKnexes>>

\* RESOLVE(data) of the i-th builder of double d
MockQueryRESOLVE(d, i, data) ==
    /\ i \in 1..Len(StoreOf(d))
    /\ IF Len(StoreOf(d)[DataArrayOf(d, i)]) = 0
       THEN /\ thrown' = TRUE
            /\ UNCHANGED <<stores, seen>>
       ELSE /\ stores' = [stores EXCEPT
                    ![DataArrayArrayOf(d)][DataArrayOf(d, i)] = Sealing(@, data)]
            /\ seen' = [seen EXCEPT ![d] = NoAccess]
            /\ thrown' = FALSE
    /\ UNCHANGED <<proxies, dataArrayArray, querySeed, currentStack, resolveSeed,
                   observed, resolveOrder, mockResolves, mockKnexes>>

\* d.MockDB()(tableName)
MockDB(d, tableName) ==
    /\ HeldTwo - Len(proxies[d].currentStack) + Len(MockResolveNew(tableName)) <= MaxHeld
    /\ proxies' = [proxies EXCEPT
            ![d] = [made |-> TRUE, currentStack |-> MockResolveNew(tableName)]]
    /\ seen' = [seen EXCEPT ![d] = NoAccess]
    /\ thrown' = FALSE
    /\ UNCHANGED <<stores, dataArrayArray, querySeed, currentStack, resolveSeed,
                   observed, resolveOrder, mockResolves, mockKnexes>>

\* a fluent call on the proxy of double d
MockResolveCall(d, verb, input) ==
    /\ proxies[d].made
    /\ HeldTwo < MaxHeld
    /\ proxies' = [proxies EXCEPT
            ![d].currentStack = Append(@, CraftData(verb, Arr(input), TRUE))]
    /\ seen' = [seen EXCEPT ![d] = NoAccess]
    /\ thrown' = FALSE
    /\ UNCHANGED <<stores, dataArrayArray, querySeed, currentStack, resolveSeed,
                   observed, resolveOrder, mockResolves, mockKnexes>>

\* valueOf() of the proxy of double d
MockResolveValueOf(d) ==
    /\ proxies[d].made
    /\ seen' = [seen EXCEPT
            ![d].valueOf = @ \cup {valueOfResult(StoreOf(d), proxies[d].currentStack)}]
    /\ thrown' = FALSE
    /\ UNCHANGED <<stores, proxies, dataArrayArray, querySeed, currentStack,
                   resolveSeed, observed, resolveOrder, mockResolves, mockKnexes>>

\* then(resolve, reject) of the proxy of double d
MockResolveThen(d) ==
    /\ proxies[d].made
    /\ seen' = [seen EXCEPT
            ![d].await = @ \cup {thenResult(StoreOf(d), proxies[d].currentStack)}]
    /\ thrown' = FALSE
    /\ UNCHANGED <<stores, proxies, dataArrayArray, querySeed, currentStack,
                   resolveSeed, observed, resolveOrder, mockResolves, mockKnexes>>

\* ---- several proxies of one double ----

\* a constructor that keeps one currentStack for every MockResolve
CurrentStackShared(h) == "p"

\* this.currentStack = new Array<Data>(): the array the constructor of the
\* MockResolve held by h allocated, named by h
CurrentStackOf(h) == h

\* a constructor that keeps a copy of the store as it is at that time
PassedResolveQueCopied == [kind |-> "copy", chains |-> dataArrayArray]

\* this.resolveQue = passedResolveQue: the array of the double itself
PassedResolveQue == [kind |-> "ref", chains |-> <<>>]

\* this.resolveQue and this.currentStack as the MockResolve held by h reads
\* them
ResolveQueAt(h) ==
    IF mockResolves[h].resolveQue.kind = "ref" THEN dataArrayArray
    ELSE mockResolves[h].resolveQue.chains
StackAt(h) == mockResolves[CurrentStackOf(h)].currentStack

\* the calls that a stack records: the names and parameters, in order
Called(stack) ==
    [k \in 1..Len(stack) |->
        [action |-> stack[k].action, parameters |-> stack[k].parameters]]

\* the chains and the Data records the double and its proxies hold
HeldAll ==
    Held + Len(mockResolves["p"].currentStack) + Len(mockResolves["q"].currentStack)

\* the MockResolve objects after the constructor ran for h with this seed
Constructed(h, seedName) ==
    [[mockResolves EXCEPT
        ![h].made = TRUE,
        ![h].resolveQue = PassedResolveQue,
        ![h].calls = Called(MockResolveNew(seedName)),
        ![h].born = Len(dataArrayArray),
        ![h].returned = NotReturned]
     EXCEPT ![CurrentStackOf(h)].currentStack = MockResolveNew(seedName)]

\* h = MockDB()(tableName)
MockDBAt(h, tableName) ==
    /\ HeldAll - Len(StackAt(h)) + Len(MockResolveNew(tableName)) <= MaxHeld
    /\ mockResolves' = Constructed(h, tableName)
    /\ thrown' = FALSE
    /\ UNCHANGED <<dataArrayArray, querySeed, currentStack, resolveSeed, observed,
                   resolveOrder, stores, proxies, seen, mockKnexes>>

\* h = MockDB().raw(input)
MockDBRawAt(h, input) ==
    /\ HeldAll - Len(StackAt(h)) + 1 <= MaxHeld
    /\ mockResolves' = Constructed(h, RawInputString(input))
    /\ thrown' = FALSE
    /\ UNCHANGED <<dataArrayArray, querySeed, currentStack, resolveSeed, observed,
                   resolveOrder, stores, proxies, seen, mockKnexes>>

\* a fluent call on the proxy held by h
ResolveCallAt(h, verb, input) ==
    /\ mockResolves[h].made
    /\ HeldAll < MaxHeld
    /\ mockResolves' =
            [[mockResolves EXCEPT
                ![h].calls = Append(@, [action |-> verb, parameters |-> Arr(input)])]
             EXCEPT ![CurrentStackOf(h)].currentStack =
                Append(@, CraftData(verb, Arr(input), TRUE))]
    /\ thrown' = FALSE
    /\ UNCHANGED <<dataArrayArray, querySeed, currentStack, resolveSeed, observed,
                   resolveOrder, stores, proxies, seen, mockKnexes>>

\* valueOf() of the proxy held by h
ValueOfAt(h) ==
    /\ mockResolves[h].made
    /\ mockResolves' = [mockResolves EXCEPT
            ![h].returned = <<valueOfResult(ResolveQueAt(h), StackAt(h))>>]
    /\ thrown' = FALSE
    /\ UNCHANGED <<dataArrayArray, querySeed, currentStack, resolveSeed, observed,
                   resolveOrder, stores, proxies, seen, mockKnexes>>

\* finalRes of then(): the result of the match or []
FinalRes(resolveQue, stack) ==
    LET res == findResult(resolveQue, stack) IN
    IF res # <<>> THEN res[1].result ELSE Arr(<<>>)

\* then(resolve, reject) of the proxy held by h, as await calls it:
\* Promise.resolve(finalRes).then(resolve, reject) is pending until the
\* microtask that calls resolve or reject runs.  The test awaits one
\* resolution of a proxy at a time.
ThenAt(h) ==
    /\ mockResolves[h].made
    /\ mockResolves[h].promise.state # "pending"
    /\ mockResolves' = [mockResolves EXCEPT
            ![h].promise = [state |-> "pending",
                            finalRes |-> FinalRes(ResolveQueAt(h), StackAt(h)),
                            value |-> Undefined]]
    /\ thrown' = FALSE
    /\ UNCHANGED <<dataArrayArray, querySeed, currentStack, resolveSeed, observed,
                   resolveOrder, stores, proxies, seen, mockKnexes>>

\* an outcome that passes every finalRes to resolve as it is
SettlementUnadopted(finalRes) == [state |-> "fulfilled", value |-> finalRes]

\* the outcome of Promise.resolve(finalRes).then(resolve, reject): a
\* rejected promise calls reject with its reason, a fulfilled promise calls
\* resolve with its value, any other value is passed to resolve as it is
Settlement(finalRes) ==
    IF finalRes.t = "rejected" THEN [state |-> "rejected", value |-> finalRes.e[1]]
    ELSE [state |-> "fulfilled", value |-> PromiseResolve(finalRes)]

\* the microtask of the promise that then() returned for h; there is none
\* while finalRes is a promise that has not settled
SettleAt(h) ==
    /\ mockResolves[h].promise.state = "pending"
    /\ mockResolves[h].promise.finalRes.t # "pending"
    /\ mockResolves' = [mockResolves EXCEPT
            ![h].promise =
                [state |-> Settlement(@.finalRes).state,
                 finalRes |-> @.finalRes,
                 value |-> Settlement(@.finalRes).value]]
    /\ thrown' = FALSE
    /\ UNCHANGED <<dataArrayArray, querySeed, currentStack, resolveSeed, observed,
                   resolveOrder, stores, proxies, seen, mockKnexes>>

\* ---- doubles of several configurations, driven by the same calls ----

\* this.config && this.config.printData
PrintData(config) == config.given /\ config.printData

\* console.log(NAME, "input", input)
InputLine(action, input) == <<action, "input", Arr(input)>>

\* console.log("find result", resolution[innerIndex], "VS",
\* this.currentStack[innerIndex])
FindLine(expected, actual) == <<"find result", expected, "VS", actual>>

\* the lines the inner loop of findResult prints for one chain: one for each
\* link it reaches, before the link is compared
RECURSIVE LinkLog(_, _, _)
LinkLog(resolution, stack, innerIndex) ==
    IF innerIndex > Len(resolution) THEN <<>>
    ELSE <<FindLine(resolution[innerIndex], stack[innerIndex])>> \o
        (IF ActionDiffers(resolution[innerIndex], stack[innerIndex]) THEN <<>>
         ELSE IF ExpectNotSet(resolution[innerIndex])
            THEN LinkLog(resolution, stack, innerIndex + 1)
         ELSE IF ParametersDiffer(resolution[innerIndex], stack[innerIndex]) THEN <<>>
         ELSE LinkLog(resolution, stack, innerIndex + 1))

\* the lines findResult prints: those of every chain of the invocation's
\* length, up to the chain whose last record it returns
RECURSIVE FindLog(_, _, _)
FindLog(resolveQue, stack, index) ==
    IF index > Len(resolveQue) THEN <<>>
    ELSE LET resolution == resolveQue[index] IN
        IF Len(resolution) # Len(stack) THEN FindLog(resolveQue, stack, index + 1)
        ELSE LinkLog(resolution, stack, 1) \o
            (IF LinkLoop(resolution, stack, 1) /\ EndsChain(resolution) THEN <<>>
             ELSE FindLog(resolveQue, stack, index + 1))

\* the trace after the lines were printed, when the double prints
Logged(k, lines) == IF PrintData(k.config) THEN k.log \o lines ELSE k.log

\* the chains and the Data records the double k holds
HeldIn(k) == Len(k.dataArrayArray) + OpsIn(k.dataArrayArray, 1) + Len(k.currentStack)

\* EXPECT()(tableName) on the double k
ExpectOn(k, tableName) ==
    [k EXCEPT !.dataArrayArray = Append(@, MockQueryNew(tableName)),
              !.thrown = FALSE]

\* a fluent call of the MockQuery of chain i of the double k
QueryCallOn(k, i, verb, input) ==
    [k EXCEPT !.dataArrayArray[i] = Append(@, CraftData(verb, Arr(input), TRUE)),
              !.thrown = FALSE]

\* RESOLVE(data) of the MockQuery of chain i of the double k
RESOLVEOn(k, i, data) ==
    IF Len(k.dataArrayArray[i]) = 0
    THEN [k EXCEPT !.thrown = TRUE]
    ELSE [k EXCEPT !.dataArrayArray[i][Len(k.dataArrayArray[i])] =
                        [@ EXCEPT !.isMore = FALSE, !.result = data],
                   !.thrown = FALSE]

\* MockDB()(tableName) on the double k
MockDBOn(k, tableName) ==
    [k EXCEPT !.made = TRUE,
              !.currentStack = MockResolveNew(tableName),
              !.returned = NotReturned,
              !.awaited = NotReturned,
              !.thrown = FALSE]

\* a fluent call on a proxy that prints the input when the double prints,
\* and records the call when it does not
ResolveCallOnPrintOnly(k, verb, input) ==
    IF PrintData(k.config)
    THEN [k EXCEPT !.log = @ \o <<InputLine(verb, input)>>, !.thrown = FALSE]
    ELSE [k EXCEPT !.currentStack = Append(@, CraftData(verb, Arr(input), TRUE)),
                   !.thrown = FALSE]

\* a fluent call on the proxy of the double k
ResolveCallOn(k, verb, input) ==
    [k EXCEPT !.log = Logged(k, <<InputLine(verb, input)>>),
              !.currentStack = Append(@, CraftData(verb, Arr(input), TRUE)),
              !.thrown = FALSE]

\* valueOf() of the proxy of the double k
ValueOfOn(k) ==
    [k EXCEPT !.log = Logged(k, FindLog(k.dataArrayArray, k.currentStack, 1)),
              !.returned = <<valueOfResult(k.dataArrayArray, k.currentStack)>>,
              !.thrown = FALSE]

\* then(resolve, reject) of the proxy of the double k: the value that
\* resolve receives
ThenOn(k) ==
    [k EXCEPT !.log = Logged(k, FindLog(k.dataArrayArray, k.currentStack, 1)),
              !.awaited = <<thenResult(k.dataArrayArray, k.currentStack)>>,
              !.thrown = FALSE]

\* the same call made on every double
Driven(after) ==
    /\ \A c \in Configured :
        /\ HeldIn(after[c]) <= MaxHeldIn
        /\ Len(after[c].log) <= MaxLog
    /\ mockKnexes' = after
    /\ UNCHANGED <<dataArrayArray, querySeed, currentStack, resolveSeed, observed,
                   thrown, resolveOrder, stores, proxies, seen, mockResolves>>

EachExpect(tableName) ==
    Driven([c \in Configured |-> ExpectOn(mockKnexes[c], tableName)])

EachQueryCall(i, verb, input) ==
    /\ \A c \in Configured : i \in 1..Len(mockKnexes[c].dataArrayArray)
    /\ Driven([c \in Configured |-> QueryCallOn(mockKnexes[c], i, verb, input)])

EachRESOLVE(i, data) ==
    /\ \A c \in Configured : i \in 1..Len(mockKnexes[c].dataArrayArray)
    /\ Driven([c \in Configured |-> RESOLVEOn(mockKnexes[c], i, data)])

EachMockDB(tableName) ==
    Driven([c \in Configured |-> MockDBOn(mockKnexes[c], tableName)])

EachResolveCall(verb, input) ==
    /\ \A c \in Configured : mockKnexes[c].made
    /\ Driven([c \in Configured |-> ResolveCallOn(mockKnexes[c], verb, input)])

EachValueOf ==
    /\ \A c \in Configured : mockKnexes[c].made
    /\ Driven([c \in Configured |-> ValueOfOn(mockKnexes[c])])

EachThen ==
    /\ \A c \in Configured : mockKnexes[c].made
    /\ Driven([c \in Configured |-> ThenOn(mockKnexes[c])])

Next ==
    \/ \E tableName \in TableNames : ExpectTable(tableName)
    \/ \E i \in 1..Len(dataArrayArray), verb \in QueryVerbs, input \in QueryInputs :
            QueryCall(i, verb, input)
    \/ \E i \in 1..Len(dataArrayArray), data \in Results : RESOLVE(i, data)
    \/ \E tableName \in TableNames : MockDBTable(tableName)
    \/ \E verb \in Verbs, input \in Inputs : ResolveCall(verb, input)
    \/ ValueOf
    \/ Then

Spec == Init /\ [][Next]_vars

\* The runs about the raw factories: chains and proxies seeded by a table
\* name or by a raw input.
NextRaw ==
    \/ \E tableName \in RawTableNames : ExpectTable(tableName)
    \/ \E input \in RawInputs : ExpectRaw(input)
    \/ \E i \in 1..Len(dataArrayArray), input \in RawCallInputs :
            QueryCall(i, SELECT, input)
    \/ \E i \in 1..Len(dataArrayArray), data \in Results : RESOLVE(i, data)
    \/ \E tableName \in RawTableNames : MockDBTable(tableName)
    \/ \E input \in RawInputs : MockDBRaw(input)
    \/ \E input \in RawCallInputs : ResolveCall(SELECT, input)
    \/ ValueOf
    \/ Then

RawSpec == Init /\ [][NextRaw]_vars

\* The double used with seeded and unseeded factories and explicit
\* table(...) calls.
NextSeed ==
    \/ \E tableName \in SeedTableNames : ExpectTable(tableName)
    \/ \E i \in 1..Len(dataArrayArray), input \in SeedCallInputs :
            QueryCall(i, TABLE, input)
    \/ \E i \in 1..Len(dataArrayArray), data \in Results : RESOLVE(i, data)
    \/ \E tableName \in SeedTableNames : MockDBTable(tableName)
    \/ \E input \in SeedCallInputs : ResolveCall(TABLE, input)
    \/ ValueOf
    \/ Then

SeedSpec == Init /\ [][NextSeed]_vars

\* The double used with select(...) calls of two arguments and of a list,
\* in one order on the side of the expectations and in both orders on the
\* side of the invocation.
NextOrder ==
    \/ \E tableName \in OrderTableNames : ExpectTable(tableName)
    \/ \E i \in 1..Len(dataArrayArray), input \in OrderExpected :
            QueryCall(i, SELECT, input)
    \/ \E i \in 1..Len(dataArrayArray), data \in OrderResults : RESOLVE(i, data)
    \/ \E tableName \in OrderTableNames : MockDBTable(tableName)
    \/ \E input \in OrderInputs : ResolveCall(SELECT, input)
    \/ ValueOf
    \/ Then

OrderSpec == Init /\ [][NextOrder]_vars

\* The double used with results that are empty or absent: [], null, 0 and
\* undefined.
NextFalsy ==
    \/ \E tableName \in OrderTableNames : ExpectTable(tableName)
    \/ \E i \in 1..Len(dataArrayArray), input \in TwoCallInputs :
            QueryCall(i, SELECT, input)
    \/ \E i \in 1..Len(dataArrayArray), data \in FalsyResults : RESOLVE(i, data)
    \/ \E tableName \in OrderTableNames : MockDBTable(tableName)
    \/ \E input \in TwoCallInputs : ResolveCall(SELECT, input)
    \/ ValueOf
    \/ Then

FalsySpec == Init /\ [][NextFalsy]_vars

\* Three doubles, built with printData true, with printData false and with
\* no configuration, on which a test makes the same calls.
NextPrint ==
    \/ \E tableName \in OrderTableNames : EachExpect(tableName)
    \/ \E i \in 1..Len(mockKnexes["on"].dataArrayArray), input \in QueryInputs :
            EachQueryCall(i, SELECT, input)
    \/ \E i \in 1..Len(mockKnexes["on"].dataArrayArray), data \in HandleResults :
            EachRESOLVE(i, data)
    \/ \E tableName \in OrderTableNames : EachMockDB(tableName)
    \/ \E input \in QueryInputs : EachResolveCall(SELECT, input)
    \/ EachValueOf
    \/ EachThen

PrintSpec == Init /\ [][NextPrint]_vars

\* The double used as the manual test uses it: whole expectations, whole
\* invocations, and the two accesses.
NextScenario ==
    \/ \E tableName \in ScenarioTables, input \in ScenarioSelects :
            ScenarioExpect(tableName, input)
    \/ \E tableName \in ScenarioTables, input \in ScenarioSelects :
            ScenarioInvoke(tableName, input)
    \/ ValueOf
    \/ Then

ScenarioSpec == Init /\ [][NextScenario]_vars

\* The double used with expectations of the table seed alone and with
\* invocations of every verb and argument list of the model.
NextInvoke ==
    \/ \E tableName \in TableNames : ExpectTable(tableName)
    \/ \E i \in 1..Len(dataArrayArray), data \in Results : RESOLVE(i, data)
    \/ \E tableName \in TableNames : MockDBTable(tableName)
    \/ \E verb \in Verbs, input \in Inputs : ResolveCall(verb, input)
    \/ ValueOf
    \/ Then

InvokeSpec == Init /\ [][NextInvoke]_vars

\* One double with its builders and two proxies, held by p and q.
NextHandles ==
    \/ \E tableName \in TwoTableNames :
            HeldAll + 2 <= MaxHeld /\ ExpectTable(tableName)
    \/ \E i \in 1..Len(dataArrayArray), input \in TwoCallInputs :
            HeldAll < MaxHeld /\ QueryCall(i, SELECT, input)
    \/ \E i \in 1..Len(dataArrayArray), data \in HandleResults : RESOLVE(i, data)
    \/ \E h \in Handles, tableName \in TableNames : MockDBAt(h, tableName)
    \/ \E h \in Handles, input \in HandleRawInputs : MockDBRawAt(h, input)
    \/ \E h \in Handles, input \in TwoCallInputs : ResolveCallAt(h, SELECT, input)
    \/ \E h \in Handles : ValueOfAt(h)

HandleSpec == Init /\ [][NextHandles]_vars

\* One double with its builders and one proxy, held by p, that is read
\* through valueOf() and awaited; the results include promises.  The
\* microtask of a promise that can settle is run in the end.
NextAwait ==
    \/ \E tableName \in TwoTableNames :
            HeldAll + 2 <= MaxHeld /\ ExpectTable(tableName)
    \/ \E i \in 1..Len(dataArrayArray), data \in AwaitResults : RESOLVE(i, data)
    \/ \E tableName \in TableNames : MockDBAt("p", tableName)
    \/ ValueOfAt("p")
    \/ ThenAt("p")
    \/ SettleAt("p")

AwaitSpec == Init /\ [][NextAwait]_vars /\ WF_vars(SettleAt("p"))

\* Two doubles, each with its builders and its proxy.
NextTwo ==
    \/ \E d \in Doubles, tableName \in TwoTableNames : EXPECT(d, tableName)
    \/ \E d \in Doubles : \E i \in 1..Len(StoreOf(d)) :
            \E verb \in QueryVerbs, input \in TwoCallInputs :
                MockQueryCall(d, i, verb, input)
    \/ \E d \in Doubles : \E i \in 1..Len(StoreOf(d)) : \E data \in Results :
            MockQueryRESOLVE(d, i, data)
    \/ \E d \in Doubles, tableName \in TableNames : MockDB(d, tableName)
    \/ \E d \in Doubles, verb \in QueryVerbs, input \in TwoCallInputs :
            MockResolveCall(d, verb, input)
    \/ \E d \in Doubles : MockResolveValueOf(d)
    \/ \E d \in Doubles : MockResolveThen(d)

TwoSpec == Init /\ [][NextTwo]_vars

\* ---- the vocabulary of the properties ----

Chains == 1..Len(dataArrayArray)
Chain(i) == dataArrayArray[i]
\* a proxy was obtained from MockDB()
HasProxy == resolveSeed.kind # "none"
\* the chain is sealed: its last operation carries the result
Sealed(chain) == Len(chain) > 0 /\ chain[Len(chain)].isMore = FALSE
ResultOf(chain) == chain[Len(chain)].result
\* the empty ordered sequence, the value of a resolution without a match
EmptyDefault == Arr(<<>>)
\* the invocation has exactly the chain's operation names and parameters
SameCalls(chain, stack) ==
    /\ Len(chain) = Len(stack)
    /\ \A k \in 1..Len(chain) :
        /\ chain[k].action = stack[k].action
        /\ chain[k].parameters = stack[k].parameters
\* the reference conditions of a structural match: the same length, the
\* same name at every position, and at every position empty or equal
\* parameters
Matches(chain, stack) ==
    /\ Len(chain) = Len(stack)
    /\ \A k \in 1..Len(chain) :
        /\ chain[k].action = stack[k].action
        /\ \/ chain[k].parameters = Arr(<<>>)
           \/ chain[k].parameters = stack[k].parameters
\* no chain stored before the i-th is sealed and matches the invocation
FirstMatch(i) ==
    \A j \in 1..(i - 1) : ~(Sealed(Chain(j)) /\ Matches(Chain(j), currentStack))
\* what the two access paths yield in the current state
ValueNow == valueOfResult(dataArrayArray, currentStack)
AwaitNow == thenResult(dataArrayArray, currentStack)

\* ---- C1 ----

\* C1 as stated: an invocation with exactly the operation names and
\* parameters of a sealed chain resolves to that chain's result R through
\* valueOf() and through await, whatever other chains the store holds.
C1_Original ==
    HasProxy =>
        \A i \in Chains :
            (Sealed(Chain(i)) /\ SameCalls(Chain(i), currentStack)) =>
                /\ ValueNow = ResultOf(Chain(i))
                /\ AwaitNow = ResultOf(Chain(i))

\* C1 as amended: an invocation with exactly the operation names and
\* parameters of a sealed chain resolves to that chain's result R through
\* valueOf(), and through await when R is not a promise, provided no chain
\* stored before it is sealed and matches the invocation.
C1_Amended ==
    HasProxy =>
        \A i \in Chains :
            (Sealed(Chain(i)) /\ SameCalls(Chain(i), currentStack) /\ FirstMatch(i)) =>
                LET R == ResultOf(Chain(i)) IN
                /\ ValueNow = R
                /\ observed.valueOf \subseteq {R}
                /\ R.t # "promise" =>
                        (AwaitNow = R /\ observed.await \subseteq {R})

\* a sealed chain of two operations, a table seed and a call with an
\* argument, and an invocation with its names and parameters that both
\* paths resolved to R
C1_Witness ==
    /\ HasProxy
    /\ \E i \in Chains :
        /\ Len(Chain(i)) = 2
        /\ Chain(i)[1].action = TABLE
        /\ Chain(i)[2].parameters # Arr(<<>>)
        /\ Sealed(Chain(i))
        /\ SameCalls(Chain(i), currentStack)
        /\ observed.valueOf = {ResultOf(Chain(i))}
        /\ observed.await = {ResultOf(Chain(i))}

\* ---- C2 ----

\* some operation of the chain was recorded with no arguments
HasWildcard(chain) == \E k \in 1..Len(chain) : chain[k].parameters = Arr(<<>>)

\* C2: an expectation operation recorded with no arguments matches an
\* invocation operation of the same name at its position whatever the
\* invocation's parameters are: when every other position matches too, the
\* scan that reaches the sealed chain returns its terminal operation, and
\* the invocation resolves to the chain's result when the scan reaches it.
C2_Wildcard ==
    HasProxy =>
        \A i \in Chains :
            (Sealed(Chain(i)) /\ HasWildcard(Chain(i)) /\ Matches(Chain(i), currentStack)) =>
                /\ FindLoop(dataArrayArray, currentStack, i) = <<Chain(i)[Len(Chain(i))]>>
                /\ FirstMatch(i) =>
                    /\ ValueNow = ResultOf(Chain(i))
                    /\ observed.valueOf \subseteq {ResultOf(Chain(i))}

\* a sealed chain whose operation was recorded with no arguments, an
\* invocation that called it with an argument, and valueOf() returned the
\* chain's result
C2_Witness ==
    /\ HasProxy
    /\ \E i \in Chains :
        /\ Sealed(Chain(i))
        /\ Matches(Chain(i), currentStack)
        /\ \E k \in 1..Len(Chain(i)) :
            /\ Chain(i)[k].parameters = Arr(<<>>)
            /\ currentStack[k].parameters # Arr(<<>>)
        /\ observed.valueOf = {ResultOf(Chain(i))}

\* ---- C3 ----

\* the invocation differs from the chain: in its length, in an operation
\* name, or in the parameters at a position where the chain's are not empty
Differs(chain, stack) ==
    \/ Len(chain) # Len(stack)
    \/ /\ Len(chain) = Len(stack)
       /\ \E k \in 1..Len(chain) :
            \/ chain[k].action # stack[k].action
            \/ /\ chain[k].parameters # Arr(<<>>)
               /\ chain[k].parameters # stack[k].parameters

\* C3: an invocation that differs from every sealed chain of the store
\* resolves to the empty ordered sequence through valueOf() and through
\* await; an empty store is such a store.
C3_NoMatch ==
    (HasProxy /\ \A i \in Chains : Sealed(Chain(i)) => Differs(Chain(i), currentStack)) =>
        /\ ValueNow = EmptyDefault
        /\ AwaitNow = EmptyDefault
        /\ observed.valueOf \subseteq {EmptyDefault}
        /\ observed.await \subseteq {EmptyDefault}

\* a sealed chain that equals the invocation but for the argument of one
\* call, and both paths returned the empty sequence
C3_Witness ==
    /\ HasProxy
    /\ \E i \in Chains :
        /\ Sealed(Chain(i))
        /\ Len(Chain(i)) = Len(currentStack)
        /\ \A k \in 1..Len(Chain(i)) : Chain(i)[k].action = currentStack[k].action
        /\ \E k \in 1..Len(Chain(i)) :
            /\ Chain(i)[k].parameters # Arr(<<>>)
            /\ Chain(i)[k].parameters # currentStack[k].parameters
    /\ \A i \in Chains : Sealed(Chain(i)) => Differs(Chain(i), currentStack)
    /\ observed.valueOf = {EmptyDefault}
    /\ observed.await = {EmptyDefault}

\* ---- C4 ----

\* the position of chain i in the order of the RESOLVE calls
ResolvePosition(i) == CHOOSE n \in 1..Len(resolveOrder) : resolveOrder[n] = i

\* the sealed chains that match the invocation
Matching == {i \in Chains : Sealed(Chain(i)) /\ Matches(Chain(i), currentStack)}

C5_Original == Cardinality(observed.valueOf \cup observed.await) <= 1

\* C5 as amended: repeated valueOf() accesses yield one value and repeated
\* awaits yield one value; the two paths agree with each other when the
\* value valueOf() returns is not a promise.
C5_Amended ==
    /\ Cardinality(observed.valueOf) <= 1
    /\ Cardinality(observed.await) <= 1
    /\ (HasProxy /\ ValueNow.t # "promise") =>
            Cardinality(observed.valueOf \cup observed.await) <= 1

\* an invocation of two operations matched a sealed chain and was accessed
\* through both paths, which returned the chain's result
C5_Witness ==
    /\ HasProxy
    /\ Len(currentStack) = 2
    /\ \E i \in Matching :
        /\ observed.valueOf = {ResultOf(Chain(i))}
        /\ observed.await = {ResultOf(Chain(i))}

\* ---- C6 ----

\* the two operations compare equal: the same name and the same parameters
SameOperation(expected, actual) ==
    /\ expected.action = actual.action
    /\ expected.parameters = actual.parameters

\* C6: the seed operation of a raw-seeded invocation never compares equal
\* to the seed operation of a table-seeded chain, nor the seed operation of
\* a table-seeded invocation to that of a raw-seeded chain, so neither
\* matches the other.
C6_SeedsDistinct ==
    HasProxy =>
        \A i \in Chains :
            (\/ querySeed[i].kind = "table" /\ resolveSeed.kind = "raw"
             \/ querySeed[i].kind = "raw" /\ resolveSeed.kind = "table") =>
                /\ ~SameOperation(Chain(i)[1], currentStack[1])
                /\ ~(Sealed(Chain(i)) /\ Matches(Chain(i), currentStack))

\* ---- C7 ----

\* the sealed raw-seeded chains that a raw-seeded invocation matches
RawMatching ==
    {i \in Chains : /\ querySeed[i].kind = "raw"
                    /\ resolveSeed.kind = "raw"
                    /\ Sealed(Chain(i))
                    /\ Matches(Chain(i), currentStack)}

\* C7 as stated: a raw-seeded chain is matched by a raw-seeded invocation
\* only when the two raw inputs are the same value.
C7_Original ==
    \A i \in RawMatching : querySeed[i].input = resolveSeed.input

\* C7 as amended: a raw-seeded chain is matched by a raw-seeded invocation
\* only when the two raw inputs have the same string conversion; inputs
\* that are different values but print the same (the number 1 and the
\* string "1") do match each other.
C7_Amended ==
    \A i \in RawMatching :
        TemplateString(querySeed[i].input) = TemplateString(resolveSeed.input)

\* a chain seeded with the raw input 1 (a number) and sealed, an invocation
\* seeded with the raw input "1" (a string), and valueOf() returned the
\* chain's result
C7_Witness ==
    /\ \E i \in RawMatching :
        /\ querySeed[i].input = Num("1")
        /\ resolveSeed.input = Str("1")
        /\ observed.valueOf = {ResultOf(Chain(i))}

\* ---- C8 ----

\* RESOLVE has been called on the builder of the chain: it set isMore to
\* false on the operation that was the last one then
WasResolved(chain) == \E k \in 1..Len(chain) : chain[k].isMore = FALSE

\* C8: a fluent call on a builder after its RESOLVE ends in an error and
\* leaves the store unchanged.
C8_AppendAfterResolveFails ==
    [][\A i \in Chains, verb \in QueryVerbs, input \in QueryInputs :
        (WasResolved(Chain(i)) /\ QueryCall(i, verb, input)) =>
            (thrown' /\ dataArrayArray' = dataArrayArray)]_vars

\* ---- C9 ----

\* C9: RESOLVE on a builder whose chain is sealed ends in an error, and the
\* result of the first RESOLVE is kept.
C9_SecondResolveFails ==
    [][\A i \in Chains, data \in Results :
        (Sealed(Chain(i)) /\ RESOLVE(i, data)) =>
            (thrown' /\ dataArrayArray' = dataArrayArray)]_vars

\* ---- C10 ----

\* C10: a sealed chain stays as it is, sealed with the same operations and
\* the same result, in every later state.
C10_SealedIsTerminal ==
    [][\A i \in Chains :
        Sealed(Chain(i)) => dataArrayArray'[i] = dataArrayArray[i]]_vars

\* ---- C11 ----

\* C11: in every chain of the store only the last operation may carry a
\* result: every earlier operation has isMore = true and no result.
C11_OnlyLastCarriesResult ==
    \A i \in Chains :
        \A k \in 1..(Len(Chain(i)) - 1) :
            /\ Chain(i)[k].isMore = TRUE
            /\ Chain(i)[k].result = Undefined

\* ---- C12 ----

\* RESOLVE has been called, and has not thrown, on the builder of chain i
InResolveOrder(i) == \E n \in 1..Len(resolveOrder) : resolveOrder[n] = i

C13_UnsealedNeverMatches ==
    (/\ HasProxy
     /\ \E i \in Chains : ~Sealed(Chain(i)) /\ SameCalls(Chain(i), currentStack)
     /\ Matching = {}) =>
        /\ ValueNow = EmptyDefault
        /\ AwaitNow = EmptyDefault
        /\ observed.valueOf \subseteq {EmptyDefault}
        /\ observed.await \subseteq {EmptyDefault}

\* a chain with operations and no RESOLVE, an invocation with its names and
\* parameters, and both paths returned the empty sequence
C13_Witness ==
    /\ HasProxy
    /\ Matching = {}
    /\ \E i \in Chains :
        /\ Len(Chain(i)) > 0
        /\ ~WasResolved(Chain(i))
        /\ SameCalls(Chain(i), currentStack)
    /\ observed.valueOf = {EmptyDefault}
    /\ observed.await = {EmptyDefault}

\* ---- C14 ----

\* the invocation of Scenario C
ScenarioCInvoked ==
    /\ HasProxy
    /\ currentStack = ScenarioInvoked(Str("myTable"),
                                      <<Arr(<<Str("objectName"), Str("id")>>)>>)

\* the expectation of Scenario C with select called with the arguments input
ScenarioCExpected(input) ==
    Sealing(ScenarioRecorded(Str("myTable"), input), ScenarioResult)

\* C14 as stated: with the expectation recorded with select([]), select
\* called with one argument that is an empty list, the invocation of
\* Scenario C resolves to {test:"passed"}.
C14_Original ==
    (/\ ScenarioCInvoked
     /\ \E i \in Chains : Chain(i) = ScenarioCExpected(<<Arr(<<>>)>>)) =>
        /\ observed.valueOf \subseteq {ScenarioResult}
        /\ observed.await \subseteq {ScenarioResult}

\* C14 as amended: with the expectation recorded with select(), select
\* called with no argument, the invocation of Scenario C resolves to
\* {test:"passed"}; with only expectations recorded with select([]) it
\* resolves to the empty default, because the parameters [[]] are set.
C14_Amended ==
    /\ (/\ ScenarioCInvoked
        /\ \E i \in Chains : Chain(i) = ScenarioCExpected(<<>>)) =>
            /\ ValueNow = ScenarioResult
            /\ AwaitNow = ScenarioResult
            /\ observed.valueOf \subseteq {ScenarioResult}
            /\ observed.await \subseteq {ScenarioResult}
    /\ (/\ ScenarioCInvoked
        /\ Chains # {}
        /\ \A i \in Chains : Chain(i) = ScenarioCExpected(<<Arr(<<>>)>>)) =>
            /\ ValueNow = EmptyDefault
            /\ AwaitNow = EmptyDefault
            /\ observed.valueOf \subseteq {EmptyDefault}
            /\ observed.await \subseteq {EmptyDefault}

\* Scenario C with select() after an expectation with select([]): both
\* paths returned {test:"passed"}
C14_Witness ==
    /\ ScenarioCInvoked
    /\ Len(dataArrayArray) = 2
    /\ Chain(1) = ScenarioCExpected(<<Arr(<<>>)>>)
    /\ Chain(2) = ScenarioCExpected(<<>>)
    /\ observed.valueOf = {ScenarioResult}
    /\ observed.await = {ScenarioResult}

\* ---- C15 ----

\* what an invocation of double d's proxy resolves to, on the two paths
ResolvesTo(d) ==
    [valueOf |-> valueOfResult(StoreOf(d), proxies[d].currentStack),
     await |-> thenResult(StoreOf(d), proxies[d].currentStack)]

\* the step is a call on double d, on one of its builders or on its proxy
CallOn(d) ==
    \/ \E tableName \in TwoTableNames : EXPECT(d, tableName)
    \/ \E i \in 1..Len(StoreOf(d)), verb \in QueryVerbs, input \in TwoCallInputs :
            MockQueryCall(d, i, verb, input)
    \/ \E i \in 1..Len(StoreOf(d)), data \in Results : MockQueryRESOLVE(d, i, data)
    \/ \E tableName \in TableNames : MockDB(d, tableName)
    \/ \E verb \in QueryVerbs, input \in TwoCallInputs : MockResolveCall(d, verb, input)
    \/ MockResolveValueOf(d)
    \/ MockResolveThen(d)

\* C15: a call on one double leaves the store of every other double, the
\* invocation chain of its proxy and the value the invocation resolves to
\* as they were.
C15_DoublesIsolated ==
    [][\A d \in Doubles : CallOn(d) =>
        \A other \in Doubles \ {d} :
            /\ StoreOf(other)' = StoreOf(other)
            /\ proxies'[other] = proxies[other]
            /\ ResolvesTo(other)' = ResolvesTo(other)
            /\ seen'[other] = seen[other]]_vars

\* both doubles hold a sealed chain of the same calls, with different
\* results; the proxy of A is in use and the proxy of B resolved to B's
\* result on both paths
C15_Witness ==
    /\ Len(StoreOf("A")) > 0 /\ Sealed(StoreOf("A")[1])
    /\ Len(StoreOf("B")) > 0 /\ Sealed(StoreOf("B")[1])
    /\ ResultOf(StoreOf("A")[1]) # ResultOf(StoreOf("B")[1])
    /\ SameCalls(StoreOf("A")[1], StoreOf("B")[1])
    /\ proxies["A"].made
    /\ proxies["B"].made
    /\ seen["B"].valueOf = {ResultOf(StoreOf("B")[1])}
    /\ seen["B"].await = {PromiseResolve(ResultOf(StoreOf("B")[1]))}

\* ---- C16 ----

\* C16: a fluent call on the proxy ends without an error, appends exactly
\* one operation, with the name of the verb and the arguments of the call, at
\* the end of the invocation chain, leaves the earlier operations as they
\* were and returns the same proxy.
C16_ProxyCallAppends ==
    [][\A verb \in Verbs, input \in Inputs :
        ResolveCall(verb, input) =>
            /\ ~thrown'
            /\ Len(currentStack') = Len(currentStack) + 1
            /\ \A k \in 1..Len(currentStack) : currentStack'[k] = currentStack[k]
            /\ currentStack'[Len(currentStack')].action = verb
            /\ currentStack'[Len(currentStack')].parameters = Arr(input)
            /\ resolveSeed' = resolveSeed]_vars

\* an invocation that called where before select, after its table seed
C16_Witness ==
    /\ HasProxy
    /\ Len(currentStack) = 3
    /\ currentStack[1].action = TABLE
    /\ currentStack[2].action = WHERE
    /\ currentStack[3].action = SELECT
    /\ currentStack[3].parameters = Arr(<<Str("b")>>)

\* ---- C17 ----

\* the reference matcher: the terminal operation of the first chain, in
\* store order, that is sealed and matches the invocation; no result when
\* there is none
ReferenceResult ==
    IF Matching = {} THEN <<>>
    ELSE LET first == CHOOSE i \in Matching : \A j \in Matching : i <= j
         IN <<Chain(first)[Len(Chain(first))]>>

\* C17: findResult returns what the reference matcher returns.
C17_FindResultIsReference ==
    findResult(dataArrayArray, currentStack) = ReferenceResult

\* the second chain of the store is the first sealed chain that matches the
\* invocation, the first chain has the invocation's length, and valueOf()
\* returned the second chain's result
C17_Witness ==
    /\ HasProxy
    /\ Len(dataArrayArray) = 2
    /\ Matching = {2}
    /\ Len(Chain(1)) = Len(currentStack)
    /\ observed.valueOf = {ResultOf(Chain(2))}

\* ---- C18 ----

\* an operation read as the specification describes the table seed: the
\* table operation with the seed string as its sole parameter
SeedAsCall(op) ==
    IF op.action = TABLE /\ op.parameters.t = "string"
    THEN [op EXCEPT !.parameters = Arr(<<op.parameters>>)]
    ELSE op

\* the chain and the invocation are the same calls when a seed counts as
\* the table(name) call
SameWithSeedAsCall(chain, stack) ==
    /\ Len(chain) = Len(stack)
    /\ \A k \in 1..Len(chain) :
        /\ SeedAsCall(chain[k]).action = SeedAsCall(stack[k]).action
        /\ SeedAsCall(chain[k]).parameters = SeedAsCall(stack[k]).parameters

\* C18: a sealed expectation started with the seed name is matched by an
\* invocation started without a seed that calls table(name) and is
\* otherwise the same, and a sealed expectation started without a seed
\* that calls table(name) is matched by the invocation seeded with name.
C18_SeedIsTableCall ==
    HasProxy =>
        \A i \in Chains :
            (/\ Sealed(Chain(i))
             /\ \/ querySeed[i].input = Str("t") /\ resolveSeed.input = Undefined
                \/ querySeed[i].input = Undefined /\ resolveSeed.input = Str("t")
             /\ SameWithSeedAsCall(Chain(i), currentStack)) =>
                findResult(dataArrayArray, currentStack) # <<>>

\* ---- C19 ----

\* the chain starts with the table seed of the string
StartsWithSeed(chain, name) ==
    /\ Len(chain) > 0
    /\ chain[1].action = TABLE
    /\ chain[1].parameters \in {name, Arr(<<name>>)}

\* C19: a chain or an invocation whose factory was called with a string,
\* the empty string included, starts with the table seed of that string (so
\* that it is never the chain of a factory called with no argument).
C19_StringSeedsStart ==
    /\ \A i \in Chains :
        querySeed[i].input.t = "string" => StartsWithSeed(Chain(i), querySeed[i].input)
    /\ resolveSeed.input.t = "string" => StartsWithSeed(currentStack, resolveSeed.input)

\* ---- C20 ----

\* every chain but the i-th of double d, every other store and every
\* invocation chain is as it was
OnlyChainChanges(d, i) ==
    /\ \A other \in Doubles :
        /\ Len(stores'[other]) = Len(stores[other])
        /\ \A j \in 1..Len(stores[other]) :
            (other # d \/ j # i) => stores'[other][j] = stores[other][j]
    /\ proxies' = proxies

\* C20: a fluent call or a RESOLVE call on one builder changes only that
\* builder's chain: every other chain of the store, every other store and
\* every invocation chain is left as it was.
C20_BuilderChangesOwnChain ==
    [][\A d \in Doubles : \A i \in 1..Len(stores[d]) :
        /\ (\E verb \in QueryVerbs, input \in TwoCallInputs :
                MockQueryCall(d, i, verb, input)) => OnlyChainChanges(d, i)
        /\ (\E data \in Results : MockQueryRESOLVE(d, i, data)) =>
                OnlyChainChanges(d, i)]_vars

\* two builders of double A used interleaved: the first was called again
\* after the second was created and called, and the second is sealed while
\* the first is not
C20_Witness ==
    /\ Len(stores["A"]) = 2
    /\ Len(stores["A"][1]) = 2
    /\ ~WasResolved(stores["A"][1])
    /\ Sealed(stores["A"][2])

\* ---- C21 ----

\* the stack a proxy would hold if only the calls made on it had been made
StackOfCalls(calls) ==
    [k \in 1..Len(calls) |-> CraftData(calls[k].action, calls[k].parameters, TRUE)]

\* the step is a call on the proxy held by h, or the factory call that
\* makes it
CallAt(h) ==
    \/ \E tableName \in TableNames : MockDBAt(h, tableName)
    \/ \E input \in HandleRawInputs : MockDBRawAt(h, input)
    \/ \E input \in TwoCallInputs : ResolveCallAt(h, SELECT, input)
    \/ ValueOfAt(h)

\* C21: every call of the double-handle factory makes a proxy with a chain
\* of its own: after every step each proxy's chain holds exactly the calls
\* made on that proxy, in order; a call on one proxy leaves the other as it
\* is; and valueOf() returns what the store yields for the proxy's own
\* calls.
C21_ProxiesIndependent ==
    [][\A h \in Handles :
        /\ mockResolves'[h].made =>
                /\ StackAt(h)' = StackOfCalls(mockResolves'[h].calls)
                /\ valueOfResult(ResolveQueAt(h), StackAt(h))' =
                        valueOfResult(dataArrayArray', StackOfCalls(mockResolves'[h].calls))
        /\ CallAt(h) =>
                \A other \in Handles \ {h} :
                    /\ mockResolves'[other] = mockResolves[other]
                    /\ StackAt(other)' = StackAt(other)
        /\ ValueOfAt(h) =>
                mockResolves'[h].returned =
                    <<valueOfResult(dataArrayArray, StackOfCalls(mockResolves[h].calls))>>]_vars

\* two proxies of the double: p, seeded with the table name, matched the
\* sealed chain; q, made by MockDB().raw(...) and called once, resolved to
\* the empty default
C21_Witness ==
    /\ mockResolves["p"].made
    /\ mockResolves["q"].made
    /\ \E i \in Chains :
        /\ Sealed(Chain(i))
        /\ SameCalls(Chain(i), StackAt("p"))
        /\ mockResolves["p"].returned = <<ResultOf(Chain(i))>>
    /\ Len(mockResolves["q"].calls) = 2
    /\ mockResolves["q"].calls[1].parameters = Str("raw:1")
    /\ mockResolves["q"].returned = <<EmptyDefault>>

\* ---- C22 ----

\* C22: a fluent call on the proxy, valueOf() and await leave the store as
\* it is, its chains, their order, their operations and their results;
\* valueOf() and await leave the invocation chain as it is too.
C22_ProxyReadsOnly ==
    [][/\ (\E input \in RawCallInputs : ResolveCall(SELECT, input)) =>
            dataArrayArray' = dataArrayArray
       /\ (ValueOf \/ Then) =>
            /\ dataArrayArray' = dataArrayArray
            /\ currentStack' = currentStack]_vars

\* an invocation of a seed and a call matched a sealed chain and was
\* resolved on both paths; the chain is in the store, sealed
C22_Witness ==
    /\ HasProxy
    /\ Len(currentStack) = 2
    /\ \E i \in Chains :
        /\ Sealed(Chain(i))
        /\ SameCalls(Chain(i), currentStack)
        /\ observed.valueOf = {ResultOf(Chain(i))}
        /\ observed.await = {PromiseResolve(ResultOf(Chain(i)))}

\* ---- C23 ----

\* C23: no operation of the invocation chain is sealed or carries a
\* result: the table seed, the raw seed and every operation a fluent call
\* appended have isMore = true and no result.
C23_InvocationNeverSealed ==
    \A k \in 1..Len(currentStack) :
        /\ currentStack[k].isMore = TRUE
        /\ currentStack[k].result = Undefined

\* an invocation of MockDB().raw(...) with a fluent call after it
C23_Witness ==
    /\ resolveSeed.kind = "raw"
    /\ Len(currentStack) = 2
    /\ currentStack[1].action = TABLE
    /\ currentStack[2].action = SELECT

\* ---- C24 ----

\* the values at the leaves of a value, with their types
RECURSIVE Leaves(_)
Leaves(v) ==
    IF v.t = "array" THEN UNION {Leaves(v.e[k]) : k \in 1..Len(v.e)}
    ELSE {<<v.t, v.s>>}

\* set parameters that hold the values of the invocation's parameters in
\* another order or another nesting
Reordered(expected, actual) ==
    /\ Length(expected) > 0
    /\ expected # actual
    /\ Leaves(expected) = Leaves(actual)

\* the invocation has the chain's length and names and, at some position,
\* the chain's arguments reordered
ReorderedAt(chain, stack) ==
    /\ Len(chain) = Len(stack)
    /\ \E k \in 1..Len(chain) :
        /\ chain[k].action = stack[k].action
        /\ Reordered(chain[k].parameters, stack[k].parameters)

\* C24: the comparison of set parameters is order-sensitive and recursive:
\* an expectation operation does not match an invocation operation of the
\* same name whose arguments, or whose list argument's elements, are the
\* same values in another order; and the invocation resolves to the empty
\* default when every sealed chain of its length is such a chain.
C24_OrderSensitive ==
    HasProxy =>
        /\ \A i \in Chains :
            ReorderedAt(Chain(i), currentStack) =>
                /\ i \notin Matching
                /\ ~LinkLoop(Chain(i), currentStack, 1)
        /\ (\A i \in Chains :
                (Sealed(Chain(i)) /\ Len(Chain(i)) = Len(currentStack)) =>
                    ReorderedAt(Chain(i), currentStack)) =>
                /\ ValueNow = EmptyDefault
                /\ AwaitNow = EmptyDefault
                /\ observed.valueOf \subseteq {EmptyDefault}
                /\ observed.await \subseteq {EmptyDefault}

\* a sealed chain recorded select("a", "b") and another select(["a", "b"]);
\* the invocation called select(["b", "a"]) and resolved to the empty
\* default on both paths
C24_Witness ==
    /\ HasProxy
    /\ currentStack = <<CraftData(SELECT, Arr(<<Arr(<<Str("b"), Str("a")>>)>>), TRUE)>>
    /\ Len(dataArrayArray) = 2
    /\ Sealed(Chain(1)) /\ Chain(1)[1].parameters = Arr(<<Str("a"), Str("b")>>)
    /\ Sealed(Chain(2)) /\ Chain(2)[1].parameters = Arr(<<Arr(<<Str("a"), Str("b")>>)>>)
    /\ observed.valueOf = {EmptyDefault}
    /\ observed.await = {EmptyDefault}

\* ---- C25 ----

\* C25: RESOLVE on a builder that holds no operation ends in an error and
\* seals nothing, so that no chain of the store is sealed and empty; and an
\* invocation with no operation resolves to the empty default on both
\* paths, whatever the store holds.
C25_EmptyNeverSealed ==
    [][/\ \A i \in Chains, data \in Results :
            (Len(Chain(i)) = 0 /\ RESOLVE(i, data)) =>
                /\ thrown'
                /\ dataArrayArray' = dataArrayArray
                /\ resolveOrder' = resolveOrder
       /\ (HasProxy' /\ currentStack' = <<>>) =>
            /\ ValueNow' = EmptyDefault
            /\ AwaitNow' = EmptyDefault
            /\ observed'.valueOf \subseteq {EmptyDefault}
            /\ observed'.await \subseteq {EmptyDefault}]_vars

\* the store holds an empty chain and a sealed one, the invocation has no
\* operation and resolved to the empty default on both paths, and the last
\* call, a RESOLVE on the empty chain, ended in an error
C25_Witness ==
    /\ thrown
    /\ HasProxy
    /\ currentStack = <<>>
    /\ \E i \in Chains : Len(Chain(i)) = 0
    /\ \E i \in Chains : Sealed(Chain(i))
    /\ observed.valueOf = {EmptyDefault}
    /\ observed.await = {EmptyDefault}

\* ---- C26 ----

\* the promise that the last then() of the proxy held by p returned
PromiseOfP == mockResolves["p"].promise
Settled == PromiseOfP.state \in {"fulfilled", "rejected"}

\* C26 as stated: an await on the proxy eventually settles as fulfilled
\* with the value that valueOf() returns at the time then is called.
C26_Original ==
    (PromiseOfP.state = "pending") ~>
        (PromiseOfP.state = "fulfilled" /\ PromiseOfP.value = PromiseOfP.finalRes)

\* C26 as amended: then() takes the value that valueOf() returns at that
\* time; the await settles, as fulfilled with that value, when the value is
\* not a promise, so always on a no-match, whose value is the empty default;
\* a result that is a promise is adopted: the await is fulfilled with the
\* promise's value, is rejected with its reason, or stays pending with it.
C26_Amended ==
    /\ [][ThenAt("p") =>
            PromiseOfP'.finalRes = valueOfResult(dataArrayArray, StackAt("p"))]_vars
    /\ [](Settled =>
            /\ PromiseOfP.finalRes.t \notin {"promise", "rejected", "pending"} =>
                    PromiseOfP.state = "fulfilled" /\ PromiseOfP.value = PromiseOfP.finalRes
            /\ PromiseOfP.finalRes.t = "promise" =>
                    PromiseOfP.state = "fulfilled" /\ PromiseOfP.value = PromiseOfP.finalRes.e[1]
            /\ PromiseOfP.finalRes.t = "rejected" =>
                    PromiseOfP.state = "rejected" /\ PromiseOfP.value = PromiseOfP.finalRes.e[1]
            /\ PromiseOfP.finalRes.t # "pending")
    /\ (PromiseOfP.state = "pending" /\ PromiseOfP.finalRes.t # "pending") ~> Settled

\* an await of an invocation that matched a chain sealed with a fulfilled
\* promise: valueOf() returned the promise and the await was fulfilled with
\* the promise's value
C26_Witness ==
    /\ mockResolves["p"].made
    /\ \E i \in Chains :
        /\ Sealed(Chain(i))
        /\ ResultOf(Chain(i)).t = "promise"
        /\ mockResolves["p"].returned = <<ResultOf(Chain(i))>>
        /\ PromiseOfP.finalRes = ResultOf(Chain(i))
        /\ PromiseOfP.state = "fulfilled"
        /\ PromiseOfP.value = ResultOf(Chain(i)).e[1]

\* ---- C27 ----

\* chain i after the step has the operations it had, by name and
\* parameters, at the positions they had
Extends(i) ==
    /\ Len(dataArrayArray'[i]) >= Len(dataArrayArray[i])
    /\ \A k \in 1..Len(dataArrayArray[i]) :
        /\ dataArrayArray'[i][k].action = dataArrayArray[i][k].action
        /\ dataArrayArray'[i][k].parameters = dataArrayArray[i][k].parameters

\* C27: the store only grows, at its end and only by a recorder factory
\* call; every chain keeps the position it took at the factory call that
\* created it through the later fluent calls and RESOLVE calls; and among
\* the sealed chains that match the invocation the one at the first
\* position supplies the result, whatever the order of the RESOLVE calls.
C27_StoreAppendOnly ==
    [][/\ Len(dataArrayArray') >= Len(dataArrayArray)
       /\ Len(dataArrayArray') <= Len(dataArrayArray) + 1
       /\ Len(dataArrayArray') = Len(querySeed')
       /\ \A i \in Chains : querySeed'[i] = querySeed[i] /\ Extends(i)
       /\ (Len(dataArrayArray') > Len(dataArrayArray)) =>
            \/ \E tableName \in RawTableNames : ExpectTable(tableName)
            \/ \E input \in RawInputs : ExpectRaw(input)
       /\ (HasProxy' /\ Matching' # {}) =>
            \A i \in Matching' :
                (\A j \in Matching' : i <= j) => ValueNow' = ResultOf(Chain(i))']_vars

\* two chains, the first created by EXPECT().raw(...), match the
\* invocation; the first was sealed after the second, with another result,
\* and valueOf() returned the first's result
C27_Witness ==
    /\ HasProxy
    /\ Matching = {1, 2}
    /\ querySeed[1].kind = "raw"
    /\ resolveOrder = <<2, 1>>
    /\ ResultOf(Chain(1)) # ResultOf(Chain(2))
    /\ observed.valueOf = {ResultOf(Chain(1))}

\* ---- C28 ----

\* C28: an access matches against the store as it is when valueOf() or
\* then() is called, with the expectations created or sealed after the
\* proxy was made or its chain was built, not as it was then.
C28_BoundAtAccess ==
    [][/\ ValueOfAt("p") =>
            mockResolves'["p"].returned =
                <<valueOfResult(dataArrayArray, StackAt("p"))>>
       /\ ThenAt("p") =>
            PromiseOfP'.finalRes = FinalRes(dataArrayArray, StackAt("p"))]_vars

\* the proxy was made before the chain that matches its invocation was
\* created; valueOf() returned that chain's result and the await was
\* fulfilled with it
C28_Witness ==
    /\ mockResolves["p"].made
    /\ \E i \in Chains :
        /\ mockResolves["p"].born < i
        /\ Sealed(Chain(i))
        /\ SameCalls(Chain(i), StackAt("p"))
        /\ mockResolves["p"].returned = <<ResultOf(Chain(i))>>
        /\ PromiseOfP.finalRes = ResultOf(Chain(i))
        /\ PromiseOfP.state = "fulfilled"

\* ---- C29 ----

\* the invocation has the chain's length and, at some position, no
\* argument where the chain has one or more
UnsetWhereExpected(chain, stack) ==
    /\ Len(chain) = Len(stack)
    /\ \E k \in 1..Len(chain) :
        /\ chain[k].action = stack[k].action
        /\ stack[k].parameters = Arr(<<>>)
        /\ Length(chain[k].parameters) > 0

\* C29: an invocation operation called with no argument does not match an
\* expectation operation of the same name recorded with arguments: the chain
\* is not a match, and when every sealed chain of the invocation's length is
\* such a chain the invocation resolves to the empty default.
C29_WildcardOneWay ==
    HasProxy =>
        /\ \A i \in Chains :
            UnsetWhereExpected(Chain(i), currentStack) =>
                /\ i \notin Matching
                /\ ~LinkLoop(Chain(i), currentStack, 1)
        /\ (\A i \in Chains :
                (Sealed(Chain(i)) /\ Len(Chain(i)) = Len(currentStack)) =>
                    UnsetWhereExpected(Chain(i), currentStack)) =>
                /\ ValueNow = EmptyDefault
                /\ AwaitNow = EmptyDefault
                /\ observed.valueOf \subseteq {EmptyDefault}
                /\ observed.await \subseteq {EmptyDefault}

\* a sealed chain recorded select with an argument, the invocation called
\* select with none after the same seed, and valueOf() returned the empty
\* default
C29_Witness ==
    /\ HasProxy
    /\ Len(currentStack) = 2
    /\ currentStack[2].parameters = Arr(<<>>)
    /\ \E i \in Chains :
        /\ Sealed(Chain(i))
        /\ Chain(i)[1] = currentStack[1]
        /\ UnsetWhereExpected(Chain(i), currentStack)
    /\ observed.valueOf = {EmptyDefault}

\* ---- C30 ----

\* C30: a chain that matches the invocation in length, names and
\* parameters and is not sealed does not stop the scan: the first sealed
\* chain that matches, also when it comes after such a chain, supplies the
\* result.
C30_UnsealedDoesNotStop ==
    HasProxy =>
        \A j \in Matching :
            (/\ \A n \in Matching : j <= n
             /\ \E i \in 1..(j - 1) :
                    ~Sealed(Chain(i)) /\ Matches(Chain(i), currentStack)) =>
                /\ ValueNow = ResultOf(Chain(j))
                /\ AwaitNow = PromiseResolve(ResultOf(Chain(j)))
                /\ observed.valueOf \subseteq {ResultOf(Chain(j))}

\* the first chain has the invocation's calls and is not sealed, the second
\* matches and is sealed, and valueOf() returned the second's result
C30_Witness ==
    /\ HasProxy
    /\ Len(currentStack) > 0
    /\ Len(dataArrayArray) = 2
    /\ ~WasResolved(Chain(1))
    /\ SameCalls(Chain(1), currentStack)
    /\ Matching = {2}
    /\ observed.valueOf = {ResultOf(Chain(2))}

\* ---- C31 ----

\* the registered results that are empty or absent
EmptyOrAbsent == {Arr(<<>>), Null, Num("0"), Undefined}

\* C31: when the first sealed chain that matches the invocation was sealed
\* with an empty or absent result ([], null, 0, undefined), valueOf() and
\* await yield exactly that value; for null, 0 and undefined that is not the
\* no-match default.
C31_MatchNotResultDecides ==
    HasProxy =>
        \A j \in Matching :
            (/\ \A n \in Matching : j <= n
             /\ ResultOf(Chain(j)) \in EmptyOrAbsent) =>
                /\ ValueNow = ResultOf(Chain(j))
                /\ AwaitNow = ResultOf(Chain(j))
                /\ observed.valueOf \subseteq {ResultOf(Chain(j))}
                /\ observed.await \subseteq {ResultOf(Chain(j))}
                /\ ResultOf(Chain(j)) # EmptyDefault => ValueNow # EmptyDefault

\* a chain sealed with 0 matches the invocation, a later one sealed with an
\* object matches too, and both valueOf() and await yielded 0
C31_Witness ==
    /\ HasProxy
    /\ Len(currentStack) > 0
    /\ Matching = {1, 2}
    /\ ResultOf(Chain(1)) = Num("0")
    /\ ResultOf(Chain(2)) = Obj("R1")
    /\ observed.valueOf = {Num("0")}
    /\ observed.await = {Num("0")}

\* ---- C32 ----

\* what a double holds and yielded, without its configuration and its trace
Behaviour(k) ==
    [dataArrayArray |-> k.dataArrayArray,
     made |-> k.made,
     currentStack |-> k.currentStack,
     thrown |-> k.thrown,
     returned |-> k.returned,
     awaited |-> k.awaited]

\* C32: after the same sequence of expectation, invocation and resolution
\* calls, the doubles built with printData true, with printData false and
\* with no configuration have the same store, the same invocation chain and
\* the same resolved values; a double that does not print has an empty trace.
C32_LoggingNeutral ==
    /\ \A c, d \in Configured : Behaviour(mockKnexes[c]) = Behaviour(mockKnexes[d])
    /\ \A c \in Configured :
            ~PrintData(mockKnexes[c].config) => mockKnexes[c].log = <<>>

\* the printing double printed the select call and the comparison of
\* findResult, the others printed nothing, and the three of them resolved
\* the invocation to the result of the sealed chain
C32_Witness ==
    /\ Len(mockKnexes["on"].log) >= 3
    /\ mockKnexes["off"].log = <<>>
    /\ mockKnexes["none"].log = <<>>
    /\ \A c \in Configured :
        /\ Len(mockKnexes[c].currentStack) = 1
        /\ mockKnexes[c].returned = <<Obj("R1")>>
        /\ mockKnexes[c].awaited = <<Obj("R1")>>

====
